---- MODULE Spec2Model ----
(***************************************************************************)
(* Model of bot_v5.py: the per-user rate limiter, the card cache, the      *)
(* de-duplicating, retrying, semaphore-bounded fetch (http_get_dedup), the *)
(* card selector (selecionar_carta) and the /carta handler that composes   *)
(* them (procurar_carta_especifica).                                       *)
(*                                                                         *)
(* The program runs on one asyncio event loop: a coroutine runs without    *)
(* interruption between two awaits, so every action below is the code      *)
(* between one suspension point and the next.                              *)
(***************************************************************************)
EXTENDS Integers, Sequences, FiniteSets, TLC

\* ------------------------------------------------------------------ constants
MAX_CHAMADAS == 10
INTERVALO_SEGUNDOS == 60
SEM_INICIAL == 5
MAX_RETRIES == 3

\* ------------------------------------------------------------------ bounds
\* users of the rate limiter
NUsuarios == 2
\* direct calls of pode_fazer_requisicao in the rate-limiter specification
MaxChamadasDiretas == 12
\* the clock stops advancing at MaxTempo
MaxTempo == 61
\* length of the candidate list handed to selecionar_carta
MaxCartas == 3
\* distinct query keys in the fetch specification
NChaves == 2
\* calls of http_get_dedup in the fetch specification
NFetch == 2
\* calls of http_get_dedup, each for its own key, in the ceiling specification
NCeil == 6
\* 429 answers of the upstream in the ceiling specification
FalhasCeil == 1
\* runs of the handler in the lookup specification
NLookup == 2
\* calls of http_get_dedup in the cancellation specification
NCancel == 3
\* calls of http_get_dedup that find every permit taken, in the backoff
\* specification
NEspera == 1

Usuarios == 1..NUsuarios
\* time.time() is read at whole instants; the clock advances by one of these
Passos == {INTERVALO_SEGUNDOS, INTERVALO_SEGUNDOS + 1}

VARIABLES
    now,                    \* time.time()
    historico_por_usuario,  \* user_id -> deque of admitted timestamps
    admitidos,              \* history: user_id -> every timestamp ever admitted
    ultima,                 \* history: the last pode_fazer_requisicao call
    nchamadas,              \* history: number of direct rate-limiter calls
    sel_cartas,             \* selecionar_carta: argument cartas_encontradas
    sel_total,              \* selecionar_carta: argument total_usuario
    sel_resultado,          \* selecionar_carta: [feito, r], r the value returned
    sem,                    \* free permits of asyncio.Semaphore(5)
    chamadas_em_andamento,  \* key -> the future published for it
    futuros,                \* the futures http_get_dedup created, by creating task
    tarefas,                \* the running coroutines, numbered in order of arrival
    cache_cartas,           \* key -> (card, insertion timestamp)
    upstream                \* what the API may answer: the 'data' lists it serves,
                            \* the ways it fails, and, when limitado, how many
                            \* failures are left

vars == <<now, historico_por_usuario, admitidos, ultima, nchamadas,
          sel_cartas, sel_total, sel_resultado,
          sem, chamadas_em_andamento, futuros, tarefas, cache_cartas, upstream>>

rateVars == <<now, historico_por_usuario, admitidos, ultima, nchamadas>>
selVars == <<sel_cartas, sel_total, sel_resultado>>
fetchVars == <<sem, chamadas_em_andamento, futuros, tarefas, upstream>>

\* ================================================================ rate limiter

PodarNada(dq, agora) == dq

\* while dq and (agora - dq[0] > INTERVALO_SEGUNDOS): dq.popleft()
RECURSIVE Podar(_, _)
Podar(dq, agora) ==
    IF dq # <<>> /\ agora - Head(dq) > INTERVALO_SEGUNDOS
    THEN Podar(Tail(dq), agora)
    ELSE dq

TemVagaInclusive(dq) == Len(dq) <= MAX_CHAMADAS

\* if len(dq) < MAX_CHAMADAS
TemVaga(dq) == Len(dq) < MAX_CHAMADAS

JanelaDepoisSempreRegistra(dq, agora) == Append(Podar(dq, agora), agora)

\* the caller's deque after one call of pode_fazer_requisicao at time agora
JanelaDepois(dq, agora) ==
    LET podada == Podar(dq, agora)
    IN IF TemVaga(podada) THEN Append(podada, agora) ELSE podada

\* the value pode_fazer_requisicao returns
Retorno(dq, agora) == TemVaga(Podar(dq, agora))

\* dq = historico_por_usuario.get(user_id); a missing user gets a new deque
JanelaDe(u) ==
    IF u \in DOMAIN historico_por_usuario THEN historico_por_usuario[u] ELSE <<>>

\* number of entries of log s that lie in the closed window [agora - 60, agora]
RECURSIVE NaJanela(_, _)
NaJanela(s, agora) ==
    IF s = <<>> THEN 0
    ELSE (IF agora - Head(s) <= INTERVALO_SEGUNDOS THEN 1 ELSE 0)
         + NaJanela(Tail(s), agora)

\* one call pode_fazer_requisicao(u): the whole function, it has no await
pode_fazer_requisicao(u) ==
    LET dq == JanelaDe(u)
        ret == Retorno(dq, now)
    IN /\ historico_por_usuario' =
            [v \in DOMAIN historico_por_usuario \cup {u} |->
                IF v = u THEN JanelaDepois(dq, now) ELSE historico_por_usuario[v]]
       /\ admitidos' = [admitidos EXCEPT ![u] = IF ret THEN Append(@, now) ELSE @]
       /\ ultima' = [user |-> u, ret |-> ret, t |-> now,
                     vistos |-> NaJanela(admitidos[u], now),
                     antes |-> historico_por_usuario]

\* a caller asks for admission
Requisicao(u) ==
    /\ nchamadas < MaxChamadasDiretas
    /\ nchamadas' = nchamadas + 1
    /\ pode_fazer_requisicao(u)
    /\ UNCHANGED <<now, selVars, fetchVars, cache_cartas>>

\* time passes
Tick(d) ==
    /\ now + d <= MaxTempo
    /\ now' = now + d
    /\ UNCHANGED <<historico_por_usuario, admitidos, ultima, nchamadas, selVars,
                   fetchVars, cache_cartas>>

NenhumaChamada == [user |-> 0, ret |-> TRUE, t |-> 0, vistos |-> 0, antes |-> <<>>]

InitRate ==
    /\ now = 0
    /\ historico_por_usuario = <<>>
    /\ admitidos = [u \in Usuarios |-> <<>>]
    /\ ultima = NenhumaChamada
    /\ nchamadas = 0

InitSelParado ==
    /\ sel_cartas = <<>>
    /\ sel_total = 0
    /\ sel_resultado = [feito |-> FALSE, r |-> <<>>]

InitFetchParado ==
    /\ sem = SEM_INICIAL
    /\ chamadas_em_andamento = <<>>
    /\ futuros = <<>>
    /\ tarefas = <<>>
    /\ cache_cartas = <<>>
    /\ upstream = [dados |-> {}, falhas |-> {}, limitado |-> TRUE, orcamento |-> 0]

InitLimiter == InitRate /\ InitSelParado /\ InitFetchParado

NextLimiter ==
    \/ \E u \in Usuarios : Requisicao(u)
    \/ \E d \in Passos : Tick(d)

SpecLimiter == InitLimiter /\ [][NextLimiter]_vars

\* ------------------------------------------------------------ claims C4, C10

\* the admitted timestamps of log s that lie in the closed window [s[i], s[i] + 60]
AdmitidosDesde(s, i) ==
    {j \in 1..Len(s) : s[j] >= s[i] /\ s[j] - s[i] <= INTERVALO_SEGUNDOS}

\* C4: for every caller, every window of INTERVALO_SEGUNDOS seconds holds at most
\* MAX_CHAMADAS admitted calls, and a call that finds MAX_CHAMADAS admitted calls
\* in the window ending at its own instant returns false (the function has no
\* await, so two calls of one caller never overlap).
C4_AdmissaoLimitada ==
    /\ \A u \in Usuarios : \A i \in 1..Len(admitidos[u]) :
          Cardinality(AdmitidosDesde(admitidos[u], i)) <= MAX_CHAMADAS
    /\ (ultima.user # 0 /\ ultima.vistos >= MAX_CHAMADAS) => ~ultima.ret

\* a caller with MAX_CHAMADAS admitted calls in the window was just rejected, and
\* an older window of the same caller has already been pruned and refilled
C4_Witness ==
    /\ ultima.user # 0
    /\ ~ultima.ret
    /\ ultima.vistos = MAX_CHAMADAS
    /\ Len(admitidos[ultima.user]) > MAX_CHAMADAS

\* C10: a rejected call leaves every window as it was, and any call leaves the
\* windows of the other callers as they were.
C10_RejeicaoSemEfeito ==
    ultima.user # 0 =>
        /\ ~ultima.ret => historico_por_usuario = ultima.antes
        /\ \A v \in Usuarios \ {ultima.user} :
              /\ v \in DOMAIN historico_por_usuario <=> v \in DOMAIN ultima.antes
              /\ v \in DOMAIN historico_por_usuario =>
                    historico_por_usuario[v] = ultima.antes[v]

\* a call was rejected while another caller holds a window of its own
C10_Witness ==
    /\ ultima.user # 0
    /\ ~ultima.ret
    /\ \E v \in DOMAIN historico_por_usuario :
          v # ultima.user /\ historico_por_usuario[v] # <<>>

\* ================================================================ card selector

\* Python's None
NoneId == "None"
SetIds == {"A", "B"}

\* a printedTotal: absent (None), an int, or a float holding a whole number
PTNone == [tipo |-> "none", v |-> 0]
PTInt(n) == [tipo |-> "int", v |-> n]
PTFloat(n) == [tipo |-> "float", v |-> n]
PrintedTotals == {PTNone, PTFloat(60)} \cup {PTInt(n) : n \in {59, 60, 61, 63}}
Totais == {60, 61}

\* a card keeps the one field the selector reads: 'set', missing (<<>>) or a
\* dict with 'id' and 'printedTotal'
SemSet == [set |-> <<>>]
ComSet(i, p) == [set |-> <<[id |-> i, printedTotal |-> p]>>]
Cartas == {SemSet} \cup {ComSet(i, p) : i \in SetIds \cup {NoneId}, p \in PrintedTotals}

RECURSIVE ListasAte(_)
ListasAte(n) ==
    IF n = 0 THEN {<<>>}
    ELSE LET menores == ListasAte(n - 1)
         IN menores \cup {Append(l, c) : l \in {m \in menores : Len(m) = n - 1}, c \in Cartas}

\* def sid(c): s = c.get('set') or {}; return s.get('id')
sid(c) == IF c.set = <<>> THEN NoneId ELSE c.set[1].id

\* def pt(c): s = c.get('set') or {}; return s.get('printedTotal')
pt(c) == IF c.set = <<>> THEN PTNone ELSE c.set[1].printedTotal

\* pt(c) == total_usuario: None equals no number, 60.0 == 60
IgualAoTotal(p, total) == p.tipo # "none" /\ p.v = total

\* isinstance(pt(c), int) and abs(pt(c) - total_usuario) <= 1
NaTolerancia(p, total) == p.tipo = "int" /\ p.v - total <= 1 /\ total - p.v <= 1

\* {x for x in (sid(c) for c in lista) if x}
IdsDe(lista) == {sid(lista[i]) : i \in DOMAIN lista} \ {NoneId}

\* Optional[dict]: <<>> is None, <<c>> is the card c
Nenhuma == <<>>
Alguma(c) == <<c>>

\* the selector with the exact-match rule left out
selecionar_carta_sem_exato(cartas_encontradas, total_usuario) ==
    LET tol == SelectSeq(cartas_encontradas,
                         LAMBDA c : NaTolerancia(pt(c), total_usuario))
    IN IF Cardinality(IdsDe(cartas_encontradas)) = 1 THEN Alguma(cartas_encontradas[1])
       ELSE IF Len(tol) = 1 THEN Alguma(tol[1])
       ELSE IF Len(tol) > 1 /\ Cardinality(IdsDe(tol)) = 1 THEN Alguma(tol[1])
       ELSE Nenhuma

\* selecionar_carta(cartas_encontradas, total_usuario)
selecionar_carta(cartas_encontradas, total_usuario) ==
    LET exatos == SelectSeq(cartas_encontradas,
                            LAMBDA c : IgualAoTotal(pt(c), total_usuario))
        tol == SelectSeq(cartas_encontradas,
                         LAMBDA c : NaTolerancia(pt(c), total_usuario))
    IN IF Cardinality(IdsDe(cartas_encontradas)) = 1 THEN Alguma(cartas_encontradas[1])
       ELSE IF Len(exatos) = 1 THEN Alguma(exatos[1])
       ELSE IF Len(exatos) > 1 /\ Cardinality(IdsDe(exatos)) = 1 THEN Alguma(exatos[1])
       ELSE IF Len(tol) = 1 THEN Alguma(tol[1])
       ELSE IF Len(tol) > 1 /\ Cardinality(IdsDe(tol)) = 1 THEN Alguma(tol[1])
       ELSE Nenhuma

\* the selector is applied to its arguments
Selecionar ==
    /\ ~sel_resultado.feito
    /\ sel_resultado' = [feito |-> TRUE,
                         r |-> selecionar_carta(sel_cartas, sel_total)]
    /\ UNCHANGED <<sel_cartas, sel_total, rateVars, fetchVars, cache_cartas>>

InitSelector ==
    /\ InitRate
    /\ InitFetchParado
    /\ sel_cartas \in ListasAte(MaxCartas)
    /\ sel_total \in Totais
    /\ sel_resultado = [feito |-> FALSE, r |-> Nenhuma]

NextSelector == Selecionar

SpecSelector == InitSelector /\ [][NextSelector]_vars

\* ------------------------------------------------------------------ claim C7

\* every candidate of the list carries a set identifier, and it is the same one
TodosNoMesmoSet(lista) ==
    /\ lista # <<>>
    /\ \A i \in DOMAIN lista : sid(lista[i]) # NoneId /\ sid(lista[i]) = sid(lista[1])

\* the candidates that carry a set identifier all carry the same one, and at
\* least one carries one
UmSoSetEntreOsQueTem(lista) ==
    \E x \in SetIds :
        /\ \E i \in DOMAIN lista : sid(lista[i]) = x
        /\ \A i \in DOMAIN lista : sid(lista[i]) \in {x, NoneId}

ExatosDe(lista, total) ==
    SelectSeq(lista, LAMBDA c : pt(c).tipo # "none" /\ pt(c).v = total)

ProximosDe(lista, total) ==
    SelectSeq(lista, LAMBDA c :
        pt(c).tipo = "int" /\ pt(c).v \in {total - 1, total, total + 1})

\* the four rules in order, the first that matches wins; "share the same set
\* identifier" read of all the candidates
QuatroRegras(lista, total) ==
    LET escolha(sub) ==
            IF Len(sub) = 1 \/ (Len(sub) > 1 /\ TodosNoMesmoSet(sub))
            THEN Alguma(sub[1]) ELSE Nenhuma
    IN IF TodosNoMesmoSet(lista) THEN Alguma(lista[1])
       ELSE IF escolha(ExatosDe(lista, total)) # Nenhuma
            THEN escolha(ExatosDe(lista, total))
       ELSE escolha(ProximosDe(lista, total))

\* the same four rules, "share the same set identifier" read of the candidates
\* that carry one
QuatroRegrasEntreOsQueTem(lista, total) ==
    LET escolha(sub) ==
            IF Len(sub) = 1 \/ (Len(sub) > 1 /\ UmSoSetEntreOsQueTem(sub))
            THEN Alguma(sub[1]) ELSE Nenhuma
    IN IF UmSoSetEntreOsQueTem(lista) THEN Alguma(lista[1])
       ELSE IF escolha(ExatosDe(lista, total)) # Nenhuma
            THEN escolha(ExatosDe(lista, total))
       ELSE escolha(ProximosDe(lista, total))

Chaves == 1..NChaves

\* chave[2], total_colecao_usuario: every query of the model asks for this total
TotalDaChave(k) == 60

\* what the upstream's 'data' holds: nothing, one card, or two cards of
\* differing sets that are both within the tolerance of TotalDaChave
Payloads == {<<>>,
             <<ComSet("A", PTInt(60))>>,
             <<ComSet("A", PTInt(59)), ComSet("B", PTInt(61))>>}

\* what a call returned or raised, and what a future holds
Nada == [tipo |-> "nada", dados |-> <<>>, erro |-> ""]
Pendente == [tipo |-> "pendente", dados |-> <<>>, erro |-> ""]
Dados(p) == [tipo |-> "dados", dados |-> p, erro |-> ""]
Erro(e) == [tipo |-> "erro", dados |-> <<>>, erro |-> e]

\* what one client.get meets: a 200 with a JSON body, a 429, an httpx error
\* (a timeout or transport error, or the status error raise_for_status raises),
\* or a 200 whose body resp.json() cannot parse
Resp200(p) == [status |-> "200", dados |-> p, erro |-> ""]
Resp429 == [status |-> "429", dados |-> <<>>, erro |-> ""]
RespErro(e) == [status |-> "erro", dados |-> <<>>, erro |-> e]
RespCorpoInvalido == [status |-> "corpo_invalido", dados |-> <<>>, erro |-> ""]
ErrosHttpx == {"RequestError", "HTTPStatusError"}
Falhas == {Resp429, RespCorpoInvalido} \cup {RespErro(e) : e \in ErrosHttpx}
\* what the next client.get may meet
RespostasPossiveis ==
    {Resp200(p) : p \in upstream.dados}
        \cup (IF ~upstream.limitado \/ upstream.orcamento > 0
              THEN upstream.falhas ELSE {})

SemResultado == [tag |-> "", carta |-> Nenhuma]

\* a coroutine before it runs: a direct call of http_get_dedup, or the
\* handler procurar_carta_especifica; consulta is the key asked for, 0 when
\* the arguments do not parse
TarefaNova(modo, user, consulta) ==
    [modo |-> modo, user |-> user, consulta |-> consulta,
     pc |-> "inicio", chave |-> 0, fut |-> 0, attempt |-> 0, last_exc |-> NoneId,
     saida |-> Nada, resultado |-> SemResultado,
     emitidas |-> 0, ultima_resp |-> ""]

Tarefas == DOMAIN tarefas

\* tasks are numbered in the order they start
NaVez(t) ==
    /\ tarefas[t].pc = "inicio"
    /\ \A u \in Tarefas : u < t => tarefas[u].pc # "inicio"

EhSeguidorNunca(k) == FALSE

\* fut = chamadas_em_andamento.get(chave); if fut is not None
EhSeguidor(k) == k \in DOMAIN chamadas_em_andamento

PodeAdquirirSempre(s) == TRUE

\* asyncio.Semaphore.acquire goes through only with a free permit
PodeAdquirir(s) == s > 0

EsgotouDepois(attempt) == attempt >= MAX_RETRIES

\* for attempt in range(max_retries): the loop ends after the last index
Esgotou(attempt) == attempt + 1 >= MAX_RETRIES

ErroNoFuturoGenerico(last_exc) == "RuntimeError"

\* fut.set_exception(last_exc or RuntimeError("Falha desconhecida"))
ErroNoFuturo(last_exc) == IF last_exc = NoneId THEN "RuntimeError" ELSE last_exc

\* raise last_exc or RuntimeError("Falha desconhecida")
ErroLevantado(last_exc) == IF last_exc = NoneId THEN "RuntimeError" ELSE last_exc

LiberarSoNoSucesso(s, saida) == IF saida.tipo = "dados" THEN s + 1 ELSE s

\* leaving `async with sem` releases the permit, however the block ended
Liberar(s, saida) == s + 1

\* if not fut.done(): fut.set_result / fut.set_exception
Assentar(f, valor) ==
    [g \in DOMAIN futuros |->
        IF g = f /\ futuros[g].tipo = "pendente" THEN valor ELSE futuros[g]]

SemAChaveFicando(k) == chamadas_em_andamento

\* chamadas_em_andamento.pop(chave, None)
SemAChave(k) ==
    [c \in DOMAIN chamadas_em_andamento \ {k} |-> chamadas_em_andamento[c]]

EntrarDedupSemPublicar(t, k) ==
    IF EhSeguidor(k)
    THEN /\ tarefas' = [tarefas EXCEPT ![t].pc = "espera_fut", ![t].chave = k,
                                       ![t].fut = chamadas_em_andamento[k]]
         /\ UNCHANGED <<chamadas_em_andamento, futuros>>
    ELSE /\ futuros' = [f \in DOMAIN futuros \cup {t} |->
                            IF f = t THEN Pendente ELSE futuros[f]]
         /\ UNCHANGED chamadas_em_andamento
         /\ tarefas' = [tarefas EXCEPT ![t].pc = "espera_sem", ![t].chave = k,
                                       ![t].fut = t]

\* lines 76-83: join the future published for the key, or publish a new one
EntrarDedup(t, k) ==
    IF EhSeguidor(k)
    THEN /\ tarefas' = [tarefas EXCEPT ![t].pc = "espera_fut", ![t].chave = k,
                                       ![t].fut = chamadas_em_andamento[k]]
         /\ UNCHANGED <<chamadas_em_andamento, futuros>>
    ELSE /\ futuros' = [f \in DOMAIN futuros \cup {t} |->
                            IF f = t THEN Pendente ELSE futuros[f]]
         /\ chamadas_em_andamento' =
                [c \in DOMAIN chamadas_em_andamento \cup {k} |->
                    IF c = k THEN t ELSE chamadas_em_andamento[c]]
         /\ tarefas' = [tarefas EXCEPT ![t].pc = "espera_sem", ![t].chave = k,
                                       ![t].fut = t]

\* ------------------------------------------------------------ cache, handler

cache_get_vazio(chave) == Nenhuma

\* cache_get: the stored card, None when the key has no entry
cache_get(chave) ==
    IF chave \in DOMAIN cache_cartas THEN cache_cartas[chave].carta ELSE Nenhuma

\* cache_set: cache_cartas[chave] = (carta, time.time())
cache_set(chave, carta) ==
    [c \in DOMAIN cache_cartas \cup {chave} |->
        IF c = chave THEN [carta |-> carta, ts |-> now] ELSE cache_cartas[c]]

Atalho(tag) == [tag |-> tag, carta |-> Nenhuma]
Encontrada(carta) == [tag |-> "Card", carta |-> carta]

\* lines 225-246 of procurar_carta_especifica: what the handler answers once
\* http_get_dedup returned or raised
ResultadoDaBusca(k, saida) ==
    IF saida.tipo = "erro" THEN Atalho("UpstreamFailure")
    ELSE IF saida.dados = <<>> THEN Atalho("NotFound")
    ELSE LET carta_correta == selecionar_carta(saida.dados, TotalDaChave(k))
         IN IF carta_correta = Nenhuma THEN Atalho("Ambiguous")
            ELSE Encontrada(carta_correta)

GravaSempre(res) == res.tag \in {"Card", "Ambiguous"}

GravaTudo(res) == TRUE

\* line 245 is reached only past the returns of lines 229, 234 and 242
Grava(res) == res.tag = "Card"

\* the task once its http_get_dedup ended with saida (its locals are gone): a
\* direct call is over, a handler goes on to line 231 and runs to its end
TarefaAposDedup(tk, saida) ==
    [tk EXCEPT !.pc = "fim", !.saida = saida, !.attempt = 0, !.last_exc = NoneId,
               !.emitidas = 0, !.ultima_resp = "",
               !.resultado = IF tk.modo = "lookup"
                             THEN ResultadoDaBusca(tk.chave, saida) ELSE @]

\* the cache once the task's http_get_dedup ended with saida
CacheAposDedup(tk, saida) ==
    IF tk.modo = "lookup" /\ Grava(ResultadoDaBusca(tk.chave, saida))
    THEN cache_set(tk.chave, ResultadoDaBusca(tk.chave, saida).carta)
    ELSE cache_cartas

\* ------------------------------------------------------------ actions

\* a direct call http_get_dedup(chave, params) starts
Chamar(t) ==
    /\ NaVez(t)
    /\ tarefas[t].modo = "direta"
    /\ EntrarDedup(t, tarefas[t].consulta)
    /\ UNCHANGED <<sem, upstream, cache_cartas, rateVars, selVars>>

AdquirirSemContar(t) ==
    /\ tarefas[t].pc = "espera_sem"
    /\ tarefas' = [tarefas EXCEPT ![t].pc = "get", ![t].attempt = 0,
                                  ![t].emitidas = 1]
    /\ UNCHANGED <<sem, chamadas_em_andamento, futuros, upstream, cache_cartas,
                   rateVars, selVars>>

\* async with sem, then the first client.get is issued
Adquirir(t) ==
    /\ tarefas[t].pc = "espera_sem"
    /\ PodeAdquirir(sem)
    /\ sem' = sem - 1
    /\ tarefas' = [tarefas EXCEPT ![t].pc = "get", ![t].attempt = 0,
                                  ![t].emitidas = 1]
    /\ UNCHANGED <<chamadas_em_andamento, futuros, upstream, cache_cartas,
                   rateVars, selVars>>

\* the loop with no sleep after the last failed attempt
ResponderSemUltimoSono(t, r) ==
    /\ tarefas[t].pc = "get"
    /\ upstream' = IF r \in Falhas /\ upstream.limitado
                   THEN [upstream EXCEPT !.orcamento = @ - 1] ELSE upstream
    /\ LET tk == [tarefas[t] EXCEPT
                     !.ultima_resp = r.status,
                     !.last_exc = IF r.status = "erro" THEN r.erro ELSE @]
       IN CASE r.status \in {"429", "erro"} /\ ~Esgotou(tk.attempt) ->
                 /\ tarefas' = [tarefas EXCEPT ![t] = [tk EXCEPT !.pc = "sleep"]]
                 /\ UNCHANGED futuros
            [] r.status \in {"429", "erro"} /\ Esgotou(tk.attempt) ->
                 /\ futuros' = Assentar(tk.fut, Erro(ErroNoFuturo(tk.last_exc)))
                 /\ tarefas' = [tarefas EXCEPT ![t] =
                                   [tk EXCEPT !.pc = "fechando",
                                              !.saida = Erro(ErroLevantado(tk.last_exc))]]
            [] r.status = "200" ->
                 /\ futuros' = Assentar(tk.fut, Dados(r.dados))
                 /\ tarefas' = [tarefas EXCEPT ![t] =
                                   [tk EXCEPT !.pc = "fechando",
                                              !.saida = Dados(r.dados)]]
            [] r.status = "corpo_invalido" ->
                 /\ tarefas' = [tarefas EXCEPT ![t] =
                                   [tk EXCEPT !.pc = "fechando",
                                              !.saida = Erro("ValueError")]]
                 /\ UNCHANGED futuros
    /\ UNCHANGED <<sem, chamadas_em_andamento, cache_cartas, rateVars, selVars>>

\* client.get ends with r, lines 92-106
Responder(t, r) ==
    /\ tarefas[t].pc = "get"
    /\ upstream' = IF r \in Falhas /\ upstream.limitado
                   THEN [upstream EXCEPT !.orcamento = @ - 1] ELSE upstream
    /\ LET tk == [tarefas[t] EXCEPT !.ultima_resp = r.status]
       IN CASE r.status = "429" ->
                 /\ tarefas' = [tarefas EXCEPT ![t] = [tk EXCEPT !.pc = "sleep"]]
                 /\ UNCHANGED futuros
            [] r.status = "erro" ->
                 /\ tarefas' = [tarefas EXCEPT ![t] =
                                   [tk EXCEPT !.pc = "sleep", !.last_exc = r.erro]]
                 /\ UNCHANGED futuros
            [] r.status = "200" ->
                 /\ futuros' = Assentar(tk.fut, Dados(r.dados))
                 /\ tarefas' = [tarefas EXCEPT ![t] =
                                   [tk EXCEPT !.pc = "fechando",
                                              !.saida = Dados(r.dados)]]
            [] r.status = "corpo_invalido" ->
                 /\ tarefas' = [tarefas EXCEPT ![t] =
                                   [tk EXCEPT !.pc = "fechando",
                                              !.saida = Erro("ValueError")]]
                 /\ UNCHANGED futuros
    /\ UNCHANGED <<sem, chamadas_em_andamento, cache_cartas, rateVars, selVars>>

\* asyncio.sleep(espera) is over: the next attempt, or lines 109-111
Acordar(t) ==
    /\ tarefas[t].pc = "sleep"
    /\ IF Esgotou(tarefas[t].attempt)
       THEN /\ futuros' = Assentar(tarefas[t].fut,
                                   Erro(ErroNoFuturo(tarefas[t].last_exc)))
            /\ tarefas' = [tarefas EXCEPT
                              ![t].pc = "fechando",
                              ![t].saida = Erro(ErroLevantado(tarefas[t].last_exc))]
       ELSE /\ tarefas' = [tarefas EXCEPT ![t].pc = "get",
                                          ![t].attempt = @ + 1,
                                          ![t].emitidas = @ + 1]
            /\ UNCHANGED futuros
    /\ UNCHANGED <<sem, chamadas_em_andamento, upstream, cache_cartas,
                   rateVars, selVars>>

\* the client is closed, the permit released, line 114 pops the key, and the
\* caller goes on with what http_get_dedup returned or raised
Fechar(t) ==
    /\ tarefas[t].pc = "fechando"
    /\ sem' = Liberar(sem, tarefas[t].saida)
    /\ chamadas_em_andamento' = SemAChave(tarefas[t].chave)
    /\ tarefas' = [tarefas EXCEPT ![t] = TarefaAposDedup(@, @.saida)]
    /\ cache_cartas' = CacheAposDedup(tarefas[t], tarefas[t].saida)
    /\ UNCHANGED <<futuros, upstream, rateVars, selVars>>

\* line 79: the awaited future is done, the follower gets its result or error
Retomar(t) ==
    /\ tarefas[t].pc = "espera_fut"
    /\ futuros[tarefas[t].fut].tipo \in {"dados", "erro"}
    /\ tarefas' = [tarefas EXCEPT ![t] = TarefaAposDedup(@, futuros[@.fut])]
    /\ cache_cartas' = CacheAposDedup(tarefas[t], futuros[tarefas[t].fut])
    /\ UNCHANGED <<sem, chamadas_em_andamento, futuros, upstream,
                   rateVars, selVars>>

\* ------------------------------------------------------------ SpecFetch
\* NFetch direct calls of http_get_dedup over NChaves keys, any upstream

\* keys are interchangeable: the first task asks for key 1, and a task asks for
\* a key some earlier task asked for or for the next unused one
AtribuicoesDeChaves(n, nk) ==
    {ks \in [1..n -> 1..nk] :
        \A t \in 1..n : ks[t] = 1 \/ \E u \in 1..(t - 1) : ks[u] = ks[t] - 1}

InitFetch ==
    /\ InitRate
    /\ InitSelParado
    /\ sem = SEM_INICIAL
    /\ chamadas_em_andamento = <<>>
    /\ futuros = <<>>
    /\ cache_cartas = <<>>
    /\ upstream = [dados |-> Payloads, falhas |-> Falhas,
                   limitado |-> FALSE, orcamento |-> 0]
    /\ \E ks \in AtribuicoesDeChaves(NFetch, NChaves) :
          tarefas = [t \in 1..NFetch |-> TarefaNova("direta", 0, ks[t])]

NextFetch ==
    \/ \E t \in Tarefas : Chamar(t)
    \/ \E t \in Tarefas : Adquirir(t)
    \/ \E t \in Tarefas : \E r \in RespostasPossiveis : Responder(t, r)
    \/ \E t \in Tarefas : Acordar(t)
    \/ \E t \in Tarefas : Fechar(t)
    \/ \E t \in Tarefas : Retomar(t)

SpecFetch == InitFetch /\ [][NextFetch]_vars

\* ------------------------------------------------------------ SpecCeil
\* NCeil direct calls of http_get_dedup, each for a key of its own but for the
\* last, which may ask for the key of the first, against an upstream that
\* serves one list and at most FalhasCeil times answers 429

InitCeil ==
    /\ InitRate
    /\ InitSelParado
    /\ sem = SEM_INICIAL
    /\ chamadas_em_andamento = <<>>
    /\ futuros = <<>>
    /\ cache_cartas = <<>>
    /\ upstream = [dados |-> {<<ComSet("A", PTInt(60))>>},
                   falhas |-> {Resp429},
                   limitado |-> TRUE, orcamento |-> FalhasCeil]
    /\ \E ultimo \in {1, NCeil} :
          tarefas = [t \in 1..NCeil |->
                        TarefaNova("direta", 0, IF t = NCeil THEN ultimo ELSE t)]

SpecCeil == InitCeil /\ [][NextFetch]_vars

\* ------------------------------------------------------------ SpecLookup
\* NLookup runs of the handler procurar_carta_especifica within one instant of
\* the clock, over NChaves keys and the users of Usuarios, against an upstream
\* that serves any list of Payloads or a second card with the total asked for,
\* answers 429, or sends a body that is no JSON

\* lines 201-207: the admission check; a rejected user is answered and the
\* handler is over, an admitted one awaits send_animation
Iniciar(t) ==
    /\ NaVez(t)
    /\ tarefas[t].modo = "lookup"
    /\ pode_fazer_requisicao(tarefas[t].user)
    /\ tarefas' = [tarefas EXCEPT ![t] =
                      IF Retorno(JanelaDe(@.user), now)
                      THEN [@ EXCEPT !.pc = "animacao"]
                      ELSE [@ EXCEPT !.pc = "fim", !.resultado = Atalho("Throttled")]]
    /\ UNCHANGED <<now, nchamadas, sem, chamadas_em_andamento, futuros, upstream,
                   cache_cartas, selVars>>

\* lines 209-226: the arguments are parsed, the cache is asked, and on a miss
\* http_get_dedup runs up to its first await
Consultar(t) ==
    /\ tarefas[t].pc = "animacao"
    /\ LET k == tarefas[t].consulta
       IN IF k = 0
          THEN /\ tarefas' = [tarefas EXCEPT ![t].pc = "fim",
                                             ![t].resultado = Atalho("InvalidQuery")]
               /\ UNCHANGED <<chamadas_em_andamento, futuros>>
          ELSE IF cache_get(k) # Nenhuma
          THEN /\ tarefas' = [tarefas EXCEPT ![t].pc = "fim", ![t].chave = k,
                                             ![t].resultado = Encontrada(cache_get(k))]
               /\ UNCHANGED <<chamadas_em_andamento, futuros>>
          ELSE EntrarDedup(t, k)
    /\ UNCHANGED <<sem, upstream, cache_cartas, rateVars, selVars>>

\* the queries of n handlers: 0 is a message that does not parse, and keys are
\* interchangeable as in AtribuicoesDeChaves
AtribuicoesDeConsultas(n, nk) ==
    {ks \in [1..n -> 0..nk] :
        \A t \in 1..n : ks[t] <= 1 \/ \E u \in 1..(t - 1) : ks[u] = ks[t] - 1}

\* the users of n handlers: user 1 is the one InitLookup gives a history, the
\* others are interchangeable
AtribuicoesDeUsuarios(n, nu) ==
    {us \in [1..n -> 1..nu] :
        \A t \in 1..n : us[t] <= 2 \/ \E u \in 1..(t - 1) : us[u] = us[t] - 1}

\* the deque of a user admitted MAX_CHAMADAS - 1 times at instant 0
QuaseCheia == [i \in 1..(MAX_CHAMADAS - 1) |-> 0]

\* the bot has no lookup running and an empty cache; user 1 had
\* MAX_CHAMADAS - 1 admissions at instant 0 (their handlers are over, none
\* found a card), the other users had none
InitLookup ==
    /\ InitSelParado
    /\ now = 0
    /\ historico_por_usuario = [u \in {1} |-> QuaseCheia]
    /\ admitidos = [u \in Usuarios |-> IF u = 1 THEN QuaseCheia ELSE <<>>]
    /\ ultima = [user |-> 1, ret |-> TRUE, t |-> 0, vistos |-> MAX_CHAMADAS - 2,
                 antes |-> [u \in {1} |-> SubSeq(QuaseCheia, 1, MAX_CHAMADAS - 2)]]
    /\ nchamadas = MAX_CHAMADAS - 1
    /\ sem = SEM_INICIAL
    /\ chamadas_em_andamento = <<>>
    /\ futuros = <<>>
    /\ cache_cartas = <<>>
    /\ upstream = [dados |-> Payloads \cup {<<ComSet("B", PTInt(60))>>},
                   falhas |-> {Resp429, RespCorpoInvalido},
                   limitado |-> FALSE, orcamento |-> 0]
    /\ \E ks \in AtribuicoesDeConsultas(NLookup, NChaves) :
       \E us \in AtribuicoesDeUsuarios(NLookup, NUsuarios) :
          tarefas = [t \in 1..NLookup |-> TarefaNova("lookup", us[t], ks[t])]

NextLookup ==
    \/ \E t \in Tarefas : Iniciar(t)
    \/ \E t \in Tarefas : Consultar(t)
    \/ \E t \in Tarefas : Adquirir(t)
    \/ \E t \in Tarefas : \E r \in RespostasPossiveis : Responder(t, r)
    \/ \E t \in Tarefas : Acordar(t)
    \/ \E t \in Tarefas : Fechar(t)
    \/ \E t \in Tarefas : Retomar(t)

SpecLookup == InitLookup /\ [][NextLookup]_vars

\* ------------------------------------------------- claims C1, C2, C3, C5, C8

\* the task is between publishing its future and line 114
Liderando(t) == tarefas[t].pc \in {"espera_sem", "get", "sleep", "fechando"}

\* the task holds a permit of sem
ComPermissao(t) == tarefas[t].pc \in {"get", "sleep", "fechando"}

\* s awaits, or got its outcome from, the future that l published
SeguidorDe(s, l) == s # l /\ tarefas[s].fut = l

\* C1 as stated: a leader that other callers of the same key are waiting for
\* makes one HTTP GET.
C1_Original ==
    \A l \in Tarefas :
        (\E s \in Tarefas : SeguidorDe(s, l) /\ tarefas[s].pc = "espera_fut")
            => tarefas[l].emitidas <= 1

\* C1 amended: concurrent calls with one key have one leader; only the leader
\* issues HTTP GETs, one per attempt and one at a time, at most MAX_RETRIES of
\* them and exactly one when the first attempt succeeds; a caller that joined
\* the leader's future issues none.
C1_UmLider ==
    /\ \A k \in Chaves :
          Cardinality({t \in Tarefas : Liderando(t) /\ tarefas[t].chave = k}) <= 1
    /\ \A t \in Tarefas :
          /\ tarefas[t].emitidas <= MAX_RETRIES
          /\ tarefas[t].fut # t => tarefas[t].emitidas = 0
          /\ ComPermissao(t) => tarefas[t].emitidas = tarefas[t].attempt + 1
          /\ (tarefas[t].pc = "fechando" /\ tarefas[t].attempt = 0)
                => tarefas[t].emitidas = 1

\* a follower waits while its leader is in its second GET
C1_Witness ==
    \E l, s \in Tarefas :
        /\ SeguidorDe(s, l)
        /\ tarefas[s].pc = "espera_fut"
        /\ tarefas[l].pc = "get"
        /\ tarefas[l].emitidas = 2

\* C2: in a cycle whose future was settled, the leader and every follower of
\* that future end with what the future holds: the same payload, or the same
\* error.
C2_MesmoDesfecho ==
    \A t \in Tarefas :
        LET f == tarefas[t].fut
        IN /\ (tarefas[t].pc = "fim" /\ f # 0 /\ f # t) =>
                 /\ futuros[f].tipo \in {"dados", "erro"}
                 /\ tarefas[t].saida = futuros[f]
           /\ (tarefas[t].pc \in {"fechando", "fim"} /\ f = t
                    /\ futuros[f].tipo \in {"dados", "erro"}) =>
                 tarefas[t].saida = futuros[f]

\* a leader and its follower both ended with the httpx error of the exhausted
\* retries
C2_Witness ==
    \E l, s \in Tarefas :
        /\ SeguidorDe(s, l)
        /\ tarefas[l].fut = l
        /\ tarefas[l].pc = "fim"
        /\ tarefas[s].pc = "fim"
        /\ tarefas[l].saida.tipo = "erro"
        /\ tarefas[l].saida.erro \in ErrosHttpx
        /\ tarefas[s].saida = tarefas[l].saida

\* C3: at most 5 calls of client.get are in flight.
C3_Teto == Cardinality({t \in Tarefas : tarefas[t].pc = "get"}) <= SEM_INICIAL

\* five GETs are in flight and a sixth leader waits for a permit
C3_Witness ==
    /\ Cardinality({t \in Tarefas : tarefas[t].pc = "get"}) = SEM_INICIAL
    /\ \E t \in Tarefas : tarefas[t].pc = "espera_sem"

\* C5: a leader never issues more than MAX_RETRIES GETs; a leader whose last
\* answer was a 429 or an httpx error has left the loop only after MAX_RETRIES
\* GETs, with the exhaustion error raised and put in the future; no GET and no
\* sleep follows a good answer or the settling of the future; a follower ends
\* with the error the future holds.
C5_Tentativas ==
    \A t \in Tarefas :
        /\ tarefas[t].emitidas <= MAX_RETRIES
        /\ (tarefas[t].pc = "fechando" /\ tarefas[t].ultima_resp \in {"429", "erro"}) =>
              /\ tarefas[t].emitidas = MAX_RETRIES
              /\ tarefas[t].saida.tipo = "erro"
              /\ tarefas[t].saida.erro \in ErrosHttpx \cup {"RuntimeError"}
              /\ futuros[t] = tarefas[t].saida
        /\ tarefas[t].pc \in {"get", "sleep"} =>
              /\ tarefas[t].ultima_resp \in {"", "429", "erro"}
              /\ futuros[t].tipo = "pendente"
        /\ (tarefas[t].pc = "fim" /\ tarefas[t].fut \notin {0, t}
                /\ futuros[tarefas[t].fut].tipo = "erro") =>
              tarefas[t].saida = futuros[tarefas[t].fut]

\* a leader left the loop after three failed GETs and its follower has ended
\* with the exhaustion error
C5_Witness ==
    \E l, s \in Tarefas :
        /\ SeguidorDe(s, l)
        /\ tarefas[l].pc = "fechando"
        /\ tarefas[l].ultima_resp \in {"429", "erro"}
        /\ tarefas[l].emitidas = MAX_RETRIES
        /\ tarefas[s].pc = "fim"
        /\ tarefas[s].saida = tarefas[l].saida
        /\ tarefas[s].saida.tipo = "erro"

\* C8: the free permits and the permits of the leaders still inside
\* `async with sem` add up to 5, and with no leader left inside all 5 are free.
C8_Permissoes ==
    /\ sem + Cardinality({t \in Tarefas : ComPermissao(t)}) = SEM_INICIAL
    /\ (\A t \in Tarefas : ~ComPermissao(t)) => sem = SEM_INICIAL

\* two leaders are over, one by exhausted retries and one by a body that is no
\* JSON, and all permits are free
C8_Witness ==
    /\ sem = SEM_INICIAL
    /\ \A t \in Tarefas : tarefas[t].pc = "fim"
    /\ \E a, b \in Tarefas :
          /\ tarefas[a].fut = a
          /\ tarefas[b].fut = b
          /\ tarefas[a].saida = Erro("ValueError")
          /\ tarefas[b].saida.tipo = "erro"
          /\ tarefas[b].saida.erro \in ErrosHttpx \cup {"RuntimeError"}

\* ------------------------------------------------------------ claims C6, C9

\* the step ends the handler of task t
Termina(t) == tarefas[t].pc # "fim" /\ tarefas'[t].pc = "fim"

\* the step takes task t past the cache_get of line 218
PassaDoCache(t) == tarefas[t].pc = "animacao" /\ tarefas'[t].pc # "animacao"

\* C6: a lookup that ended with a card selected from fetched data left that card
\* in the cache under its key; an entry stays, with its card, for good; and a
\* lookup that reaches line 218 when its key has an entry ends right there with
\* the entry's card, without entering http_get_dedup: it publishes or joins no
\* future and takes no permit.
C6_CacheIdempotente ==
    /\ [](\A t \in Tarefas :
             (tarefas[t].pc = "fim" /\ tarefas[t].resultado.tag = "Card") =>
                 /\ tarefas[t].chave \in DOMAIN cache_cartas
                 /\ cache_cartas[tarefas[t].chave].carta = tarefas[t].resultado.carta)
    /\ [][/\ \A k \in DOMAIN cache_cartas :
                /\ k \in DOMAIN cache_cartas'
                /\ cache_cartas'[k].carta = cache_cartas[k].carta
          /\ \A t \in Tarefas :
                (PassaDoCache(t) /\ tarefas[t].consulta \in DOMAIN cache_cartas) =>
                    /\ tarefas'[t].pc = "fim"
                    /\ tarefas'[t].resultado =
                           Encontrada(cache_cartas[tarefas[t].consulta].carta)
                    /\ tarefas'[t].fut = 0
                    /\ futuros' = futuros
                    /\ chamadas_em_andamento' = chamadas_em_andamento
                    /\ sem' = sem]_vars

\* one lookup fetched, selected and stored a card, and another lookup for the
\* same key ended with that card without entering http_get_dedup
C6_Witness ==
    \E a, b \in Tarefas :
        /\ tarefas[a].pc = "fim"
        /\ tarefas[b].pc = "fim"
        /\ tarefas[a].consulta = tarefas[b].consulta
        /\ tarefas[a].fut = a
        /\ tarefas[a].resultado.tag = "Card"
        /\ tarefas[b].fut = 0
        /\ tarefas[b].resultado = tarefas[a].resultado

\* C9: a step that ends a lookup as throttled, invalid query, upstream failure,
\* not found or ambiguous leaves cache_cartas as it was, and so does every step
\* that ends no lookup; cache_cartas changes only in the step that ends a lookup
\* with the card selected from fetched data, and then only the entry of that
\* lookup's key; every entry holds a card that a lookup selected.
C9_FalhaNaoGrava ==
    /\ [](\A k \in DOMAIN cache_cartas :
             /\ cache_cartas[k].carta # Nenhuma
             /\ \E t \in Tarefas :
                   /\ tarefas[t].pc = "fim"
                   /\ tarefas[t].chave = k
                   /\ tarefas[t].fut # 0
                   /\ tarefas[t].resultado = Encontrada(cache_cartas[k].carta))
    /\ [][/\ \A t \in Tarefas :
                Termina(t) =>
                    IF tarefas'[t].resultado.tag = "Card" /\ tarefas[t].pc # "animacao"
                    THEN /\ DOMAIN cache_cartas' =
                                DOMAIN cache_cartas \cup {tarefas[t].chave}
                         /\ cache_cartas'[tarefas[t].chave].carta =
                                tarefas'[t].resultado.carta
                         /\ \A k \in DOMAIN cache_cartas \ {tarefas[t].chave} :
                                cache_cartas'[k] = cache_cartas[k]
                    ELSE cache_cartas' = cache_cartas
          /\ (\A t \in Tarefas : ~Termina(t)) => cache_cartas' = cache_cartas]_vars

\* one lookup ended with none of the fetched cards selected, or with nothing
\* found, or with the upstream failing, another one stored a card, and the cache
\* holds that card alone
C9_Witness ==
    \E a, b \in Tarefas :
        /\ tarefas[a].pc = "fim"
        /\ tarefas[b].pc = "fim"
        /\ tarefas[a].resultado.tag \in {"Ambiguous", "NotFound", "UpstreamFailure"}
        /\ tarefas[a].fut = a
        /\ tarefas[b].resultado.tag = "Card"
        /\ tarefas[b].fut = b
        /\ DOMAIN cache_cartas = {tarefas[b].chave}
        /\ tarefas[a].chave # tarefas[b].chave

\* ------------------------------------------------------------ claim C11

\* the step starts http_get_dedup in task t
EntraNoDedup(t) ==
    /\ tarefas[t].pc \in {"inicio", "animacao"}
    /\ tarefas'[t].pc \in {"espera_fut", "espera_sem"}

\* C11: every entry of chamadas_em_andamento belongs to a leader that is still
\* between lines 83 and 114 for that key, and every such leader owns the entry
\* of its key, so a key has at most one entry and one leader; a call that finds
\* an entry for its key joins the entry's future and publishes nothing, a call
\* that finds none publishes its own; a follower issues no GET, and the permits
\* taken are those of leaders alone.
C11_UmaEntradaPorChave ==
    /\ [](/\ \A k \in DOMAIN chamadas_em_andamento :
               LET l == chamadas_em_andamento[k]
               IN Liderando(l) /\ tarefas[l].chave = k /\ tarefas[l].fut = l
          /\ \A t \in Tarefas :
               /\ Liderando(t) =>
                     /\ tarefas[t].chave \in DOMAIN chamadas_em_andamento
                     /\ chamadas_em_andamento[tarefas[t].chave] = t
               /\ tarefas[t].fut \notin {0, t} =>
                     /\ tarefas[t].pc \in {"espera_fut", "fim"}
                     /\ tarefas[t].emitidas = 0
          /\ sem = SEM_INICIAL
                 - Cardinality({t \in Tarefas : tarefas[t].fut = t /\ ComPermissao(t)}))
    /\ [][\A t \in Tarefas :
             EntraNoDedup(t) =>
                 IF tarefas'[t].chave \in DOMAIN chamadas_em_andamento
                 THEN /\ tarefas'[t].pc = "espera_fut"
                      /\ tarefas'[t].fut = chamadas_em_andamento[tarefas'[t].chave]
                      /\ chamadas_em_andamento' = chamadas_em_andamento
                      /\ futuros' = futuros
                 ELSE /\ tarefas'[t].pc = "espera_sem"
                      /\ tarefas'[t].fut = t
                      /\ chamadas_em_andamento'[tarefas'[t].chave] = t]_vars

\* a leader sleeps in its backoff with its permit while another call of the
\* same key waits on its future
C11_Witness ==
    \E l, s \in Tarefas :
        /\ SeguidorDe(s, l)
        /\ tarefas[s].pc = "espera_fut"
        /\ tarefas[l].pc = "sleep"
        /\ chamadas_em_andamento[tarefas[l].chave] = l
        /\ sem = SEM_INICIAL - 1

\* ------------------------------------------------------------ claim C12

\* C12: an entry leaves chamadas_em_andamento only when the future it holds has
\* been settled with a result or an exception.
C12_RemoveSoAssentado ==
    [][\A k \in DOMAIN chamadas_em_andamento :
          k \notin DOMAIN chamadas_em_andamento' =>
              futuros[chamadas_em_andamento[k]].tipo \in {"dados", "erro"}]_vars

\* a leader is over after a body that is no JSON: its key has no entry, its
\* future is still pending, and a follower waits on that future
C12_Witness ==
    \E l, s \in Tarefas :
        /\ SeguidorDe(s, l)
        /\ tarefas[s].pc = "espera_fut"
        /\ tarefas[l].pc = "fim"
        /\ tarefas[l].saida = Erro("ValueError")
        /\ futuros[l].tipo = "pendente"
        /\ tarefas[l].chave \notin DOMAIN chamadas_em_andamento

\* ------------------------------------------------------------ claim C13

\* C13: the step that ends a leader's http_get_dedup, however it ends, leaves
\* chamadas_em_andamento without an entry for its key; a call joins only the
\* future of a leader that is not over yet; and a call that starts when its key
\* has no entry becomes a leader with a pending future of its own and no GET
\* issued yet, whatever an earlier leader of the key ended with.
C13_CicloNovo ==
    [][\A t \in Tarefas :
          /\ (Liderando(t) /\ tarefas'[t].pc = "fim") =>
                tarefas[t].chave \notin DOMAIN chamadas_em_andamento'
          /\ EntraNoDedup(t) =>
                IF tarefas'[t].chave \in DOMAIN chamadas_em_andamento
                THEN /\ tarefas'[t].fut # t
                     /\ Liderando(tarefas'[t].fut)
                ELSE /\ tarefas'[t].fut = t
                     /\ futuros'[t] = Pendente
                     /\ tarefas'[t].emitidas = 0
                     /\ tarefas'[t].attempt = 0]_vars

\* a leader ended with the error of its exhausted retries, and a later call of
\* the same key led a cycle of its own and returned a payload
C13_Witness ==
    \E a, b \in Tarefas :
        /\ a < b
        /\ tarefas[a].chave = tarefas[b].chave
        /\ tarefas[a].pc = "fim"
        /\ tarefas[a].fut = a
        /\ futuros[a].tipo = "erro"
        /\ tarefas[b].pc = "fim"
        /\ tarefas[b].fut = b
        /\ futuros[b].tipo = "dados"
        /\ tarefas[b].saida = futuros[b]

\* ------------------------------------------------------------ claim C14

\* the event loop runs every coroutine that is ready, every client.get ends
\* (it has a timeout of 12 s), every sleep ends, and asyncio.Semaphore wakes
\* its waiters in the order they came
JusticaFetch ==
    \A t \in 1..NFetch :
        /\ WF_vars(Chamar(t))
        /\ SF_vars(Adquirir(t))
        /\ WF_vars(\E r \in RespostasPossiveis : Responder(t, r))
        /\ WF_vars(Acordar(t))
        /\ WF_vars(Fechar(t))
        /\ WF_vars(Retomar(t))

SpecFetchJusto == SpecFetch /\ JusticaFetch

\* C14: with every ready coroutine run and every attempt completed, every call
\* of http_get_dedup, leader or follower, comes to its end.
C14_TodasTerminam == <>(\A t \in Tarefas : tarefas[t].pc = "fim")

\* nothing can run any more, and a follower still waits on a pending future
\* whose leader is over
C14_Witness ==
    /\ \E s \in Tarefas :
          /\ tarefas[s].pc = "espera_fut"
          /\ futuros[tarefas[s].fut].tipo = "pendente"
          /\ tarefas[tarefas[s].fut].pc = "fim"
    /\ \A t \in Tarefas : tarefas[t].pc \in {"fim", "espera_fut"}
    /\ ~ENABLED NextFetch

\* ------------------------------------------------------------ SpecCancel
\* NCancel direct calls of http_get_dedup for one key, any of which may be
\* cancelled while it waits as a follower, against an upstream that serves one
\* list or answers 429

\* a future after Future.cancel()
Cancelado == [tipo |-> "cancelado", dados |-> <<>>, erro |-> ""]

\* Task.cancel() on a task suspended in `await fut` (line 79): the task cancels
\* the future it waits on, which is the leader's, unless that future is done,
\* and the task ends with CancelledError
Cancelar(t) ==
    /\ tarefas[t].pc = "espera_fut"
    /\ futuros' = [futuros EXCEPT ![tarefas[t].fut] =
                      IF @.tipo = "pendente" THEN Cancelado ELSE @]
    /\ tarefas' = [tarefas EXCEPT ![t].pc = "cancelada",
                                  ![t].saida = Erro("CancelledError")]
    /\ UNCHANGED <<sem, chamadas_em_andamento, upstream, cache_cartas,
                   rateVars, selVars>>

\* line 79: the awaited future was cancelled, `await fut` raises CancelledError,
\* which the handler's `except Exception` does not catch
RetomarCancelado(t) ==
    /\ tarefas[t].pc = "espera_fut"
    /\ futuros[tarefas[t].fut].tipo = "cancelado"
    /\ tarefas' = [tarefas EXCEPT ![t].pc = "fim",
                                  ![t].saida = Erro("CancelledError"),
                                  ![t].resultado =
                                      IF tarefas[t].modo = "lookup"
                                      THEN Atalho("Cancelled") ELSE @]
    /\ UNCHANGED <<sem, chamadas_em_andamento, futuros, upstream, cache_cartas,
                   rateVars, selVars>>

InitCancel ==
    /\ InitRate
    /\ InitSelParado
    /\ sem = SEM_INICIAL
    /\ chamadas_em_andamento = <<>>
    /\ futuros = <<>>
    /\ cache_cartas = <<>>
    /\ upstream = [dados |-> {<<ComSet("A", PTInt(60))>>},
                   falhas |-> {Resp429},
                   limitado |-> FALSE, orcamento |-> 0]
    /\ tarefas = [t \in 1..NCancel |-> TarefaNova("direta", 0, 1)]

NextCancel ==
    \/ \E t \in Tarefas : Chamar(t)
    \/ \E t \in Tarefas : Adquirir(t)
    \/ \E t \in Tarefas : \E r \in RespostasPossiveis : Responder(t, r)
    \/ \E t \in Tarefas : Acordar(t)
    \/ \E t \in Tarefas : Fechar(t)
    \/ \E t \in Tarefas : Retomar(t)
    \/ \E t \in Tarefas : Cancelar(t)
    \/ \E t \in Tarefas : RetomarCancelado(t)

SpecCancel == InitCancel /\ [][NextCancel]_vars

\* ------------------------------------------------------------ claim C15

\* C15: whichever followers were cancelled, a leader that is over has put what
\* it returned or raised in its future, and every follower that was not
\* cancelled and is over got that outcome from the future.
C15_CancelamentoIsolado ==
    \A t \in Tarefas :
        /\ (tarefas[t].pc = "fim" /\ tarefas[t].fut = t) =>
              /\ futuros[t].tipo \in {"dados", "erro"}
              /\ futuros[t] = tarefas[t].saida
        /\ (tarefas[t].pc = "fim" /\ tarefas[t].fut \notin {0, t}) =>
              /\ futuros[tarefas[t].fut].tipo \in {"dados", "erro"}
              /\ tarefas[t].saida = futuros[tarefas[t].fut]

\* one follower was cancelled; the leader returned its payload, its future is
\* cancelled, and the follower that was not cancelled ended with CancelledError
C15_Witness ==
    \E l, a, b \in Tarefas :
        /\ SeguidorDe(a, l)
        /\ SeguidorDe(b, l)
        /\ tarefas[a].pc = "cancelada"
        /\ tarefas[b].pc = "fim"
        /\ tarefas[b].saida = Erro("CancelledError")
        /\ tarefas[l].pc = "fim"
        /\ tarefas[l].saida.tipo = "dados"
        /\ futuros[l] = Cancelado

\* ------------------------------------------------------------ claim C16

\* the entries of deque dq that are no older than INTERVALO_SEGUNDOS at agora
Recentes(dq, agora) == {i \in DOMAIN dq : agora - dq[i] <= INTERVALO_SEGUNDOS}

\* C16: every caller's deque holds at most MAX_CHAMADAS timestamps in
\* non-decreasing order; the last call decided on the entries of its caller's
\* deque that were no older than INTERVALO_SEGUNDOS, and left none older in it.
C16_JanelaLimitada ==
    /\ \A u \in DOMAIN historico_por_usuario :
          LET dq == historico_por_usuario[u]
          IN /\ Len(dq) <= MAX_CHAMADAS
             /\ \A i, j \in DOMAIN dq : i < j => dq[i] <= dq[j]
    /\ ultima.user # 0 =>
          LET u == ultima.user
              antes == IF u \in DOMAIN ultima.antes THEN ultima.antes[u] ELSE <<>>
              dq == historico_por_usuario[u]
          IN /\ ultima.ret <=>
                    Cardinality(Recentes(antes, ultima.t)) < MAX_CHAMADAS
             /\ Recentes(dq, ultima.t) = DOMAIN dq

\* a caller whose deque was full of entries older than INTERVALO_SEGUNDOS
\* called: the old entries are gone and the call was admitted
C16_Witness ==
    /\ ultima.user # 0
    /\ ultima.user \in DOMAIN ultima.antes
    /\ ultima.ret
    /\ LET antes == ultima.antes[ultima.user]
       IN /\ Len(antes) = MAX_CHAMADAS
          /\ ultima.t - antes[MAX_CHAMADAS] > INTERVALO_SEGUNDOS
          /\ historico_por_usuario[ultima.user] = <<ultima.t>>

\* ------------------------------------------------------------ SpecCarimbo
\* NLookup runs of the handler by one user without a history, all for one key,
\* while the clock advances, against an upstream that serves any list of
\* Payloads or answers 429

InitCarimbo ==
    /\ InitRate
    /\ InitSelParado
    /\ sem = SEM_INICIAL
    /\ chamadas_em_andamento = <<>>
    /\ futuros = <<>>
    /\ cache_cartas = <<>>
    /\ upstream = [dados |-> Payloads, falhas |-> {Resp429},
                   limitado |-> FALSE, orcamento |-> 0]
    /\ tarefas = [t \in 1..NLookup |-> TarefaNova("lookup", NUsuarios, 1)]

NextCarimbo ==
    \/ \E t \in Tarefas : Iniciar(t)
    \/ \E t \in Tarefas : Consultar(t)
    \/ \E t \in Tarefas : Adquirir(t)
    \/ \E t \in Tarefas : \E r \in RespostasPossiveis : Responder(t, r)
    \/ \E t \in Tarefas : Acordar(t)
    \/ \E t \in Tarefas : Fechar(t)
    \/ \E t \in Tarefas : Retomar(t)
    \/ \E d \in Passos : Tick(d)

SpecCarimbo == InitCarimbo /\ [][NextCarimbo]_vars

\* ------------------------------------------------------------ claim C17

\* C17 as stated: an entry of cache_cartas, once written, keeps its card and
\* its timestamp.
C17_Original ==
    [][\A k \in DOMAIN cache_cartas :
          /\ k \in DOMAIN cache_cartas'
          /\ cache_cartas'[k] = cache_cartas[k]]_vars

\* C17 amended: a key has one entry at most, an entry is never removed and its
\* card never changes; its timestamp never goes back, and it changes only in a
\* step that ends, with that same card, a lookup that had missed the cache
\* before the entry was written.
C17_CartaImutavel ==
    [][\A k \in DOMAIN cache_cartas :
          /\ k \in DOMAIN cache_cartas'
          /\ cache_cartas'[k].carta = cache_cartas[k].carta
          /\ cache_cartas'[k].ts >= cache_cartas[k].ts
          /\ cache_cartas'[k].ts # cache_cartas[k].ts =>
                \E t \in Tarefas :
                    /\ Termina(t)
                    /\ tarefas[t].pc \in {"fechando", "espera_fut"}
                    /\ tarefas[t].chave = k
                    /\ tarefas'[t].resultado = Encontrada(cache_cartas[k].carta)]_vars

\* a leader ended with the card and wrote the entry at instant 0, the clock
\* advanced, and its follower, whose future holds the payload, is about to
\* resume and write the entry again
C17_Witness ==
    \E l, s \in Tarefas :
        /\ SeguidorDe(s, l)
        /\ tarefas[l].pc = "fim"
        /\ tarefas[l].resultado.tag = "Card"
        /\ tarefas[s].pc = "espera_fut"
        /\ futuros[l].tipo = "dados"
        /\ tarefas[l].chave \in DOMAIN cache_cartas
        /\ cache_cartas[tarefas[l].chave].carta = tarefas[l].resultado.carta
        /\ cache_cartas[tarefas[l].chave].ts = 0
        /\ now > 0

\* ------------------------------------------------------------ claim C18

\* the cards of a list
CartasDe(lista) == {lista[i] : i \in DOMAIN lista}

\* c carries a set identifier, and every candidate of the list carries that one
SetDeTodas(c, lista) ==
    /\ sid(c) # NoneId
    /\ \A i \in DOMAIN lista : sid(lista[i]) = sid(c)

\* c has an int printedTotal within 1 of the total, or a printedTotal that is a
\* float equal to the total
TotalProximo(c, total) ==
    \/ pt(c).tipo = "int" /\ pt(c).v \in {total - 1, total, total + 1}
    \/ pt(c).tipo = "float" /\ pt(c).v = total

\* C18: a card returned by selecionar_carta is a candidate of the
\* list, and it has a printedTotal within 1 of the target total or carries the
\* set identifier that every candidate carries.
C18_Original ==
    (sel_resultado.feito /\ sel_resultado.r # Nenhuma) =>
        LET c == sel_resultado.r[1]
        IN /\ c \in CartasDe(sel_cartas)
           /\ TotalProximo(c, sel_total) \/ SetDeTodas(c, sel_cartas)

\* the selector returned the first candidate, which has no set and no
\* printedTotal, because the only other candidate carries a set identifier
C18_Witness ==
    /\ sel_resultado.feito
    /\ Len(sel_cartas) = 2
    /\ sel_cartas[1] = SemSet
    /\ sid(sel_cartas[2]) # NoneId
    /\ ~TotalProximo(sel_cartas[2], sel_total)
    /\ sel_resultado.r = Alguma(SemSet)

\* ------------------------------------------------------------ SpecRecuo
\* SEM_INICIAL leaders, each of a key of its own, took all the permits, were
\* answered 429 and sleep in their first backoff; NEspera further direct calls
\* of http_get_dedup come, each for a key of its own but for the last, which
\* may ask for the key of the first leader; the upstream answers every GET
\* with 429

\* a leader of key k in the sleep of line 95 after its first GET
Dormindo(k) ==
    [TarefaNova("direta", 0, k) EXCEPT
        !.pc = "sleep", !.chave = k, !.fut = k, !.emitidas = 1,
        !.ultima_resp = "429"]

InitRecuo ==
    /\ InitRate
    /\ InitSelParado
    /\ sem = 0
    /\ chamadas_em_andamento = [k \in 1..SEM_INICIAL |-> k]
    /\ futuros = [k \in 1..SEM_INICIAL |-> Pendente]
    /\ cache_cartas = <<>>
    /\ upstream = [dados |-> {}, falhas |-> {Resp429},
                   limitado |-> FALSE, orcamento |-> 0]
    /\ \E ultimo \in {1, SEM_INICIAL + NEspera} :
          tarefas = [t \in 1..(SEM_INICIAL + NEspera) |->
                        IF t <= SEM_INICIAL THEN Dormindo(t)
                        ELSE TarefaNova("direta", 0,
                                        IF t = SEM_INICIAL + NEspera THEN ultimo ELSE t)]

SpecRecuo == InitRecuo /\ [][NextFetch]_vars

\* ------------------------------------------------------------ claim C19

\* C19: the free permits are SEM_INICIAL less one for each leader between its
\* acquisition and the end of its attempts, sleeping ones included; the count
\* of free permits goes down by one only when a leader acquires, which needs a
\* free permit, and up by one only when a leader ends, never between attempts;
\* while SEM_INICIAL leaders sleep in backoff no GET is in flight and no permit
\* is free; a follower holds none, and its steps leave the permits alone.
C19_PermissaoContinua ==
    /\ [](/\ sem >= 0
          /\ sem = SEM_INICIAL
                 - Cardinality({t \in Tarefas :
                                   tarefas[t].pc \in {"get", "sleep", "fechando"}})
          /\ Cardinality({t \in Tarefas : tarefas[t].pc = "sleep"}) = SEM_INICIAL =>
                /\ sem = 0
                /\ \A t \in Tarefas : tarefas[t].pc # "get")
    /\ [][/\ sem' < sem =>
                /\ sem > 0
                /\ sem' = sem - 1
                /\ \E t \in Tarefas :
                      tarefas[t].pc = "espera_sem" /\ tarefas'[t].pc = "get"
          /\ sem' > sem =>
                /\ sem' = sem + 1
                /\ \E t \in Tarefas :
                      tarefas[t].pc = "fechando" /\ tarefas'[t].pc = "fim"
          /\ \A t \in Tarefas :
                /\ (tarefas[t].pc # "get" /\ tarefas'[t].pc = "get") =>
                      \/ tarefas[t].pc = "sleep" /\ sem' = sem
                      \/ tarefas[t].pc = "espera_sem" /\ sem > 0
                /\ tarefas[t].pc = "espera_fut" => sem' = sem
                   \/ tarefas'[t] = tarefas[t]]_vars

\* SEM_INICIAL leaders sleep in their third backoff, having kept their permits
\* through three GETs, and the leader of another key still waits for a permit
C19_Witness ==
    /\ sem = 0
    /\ Cardinality({t \in Tarefas :
                       tarefas[t].pc = "sleep" /\ tarefas[t].attempt = 2}) = SEM_INICIAL
    /\ \E t \in Tarefas : tarefas[t].pc = "espera_sem"

\* ------------------------------------------------------------ claim C20

\* C20: a GET answered 429 or ended by an httpx error is followed by a sleep,
\* the last attempt's too, with the future still pending; the sleep after
\* attempt MAX_RETRIES - 1 is followed by the settling of the future with the
\* failure, the others by the next GET; a good answer settles the future at
\* once, with no sleep; in both cases the entry and the permit are still held
\* when the future is settled, and go in the step that ends the call; a leader
\* in its n-th GET or sleep has slept n - 1 or n times.
C20_OrdemDosEventos ==
    /\ [](\A t \in Tarefas :
             /\ tarefas[t].pc \in {"get", "sleep"} =>
                   /\ futuros[t].tipo = "pendente"
                   /\ tarefas[t].emitidas = tarefas[t].attempt + 1
                   /\ tarefas[t].attempt < MAX_RETRIES
             /\ tarefas[t].pc = "sleep" => tarefas[t].ultima_resp \in {"429", "erro"}
             /\ (tarefas[t].pc = "fechando" /\ futuros[t].tipo = "erro") =>
                   /\ tarefas[t].attempt = MAX_RETRIES - 1
                   /\ tarefas[t].ultima_resp \in {"429", "erro"})
    /\ [][\A t \in Tarefas :
             /\ (tarefas[t].pc = "get" /\ tarefas'[t].pc # "get") =>
                   IF tarefas'[t].ultima_resp \in {"429", "erro"}
                   THEN /\ tarefas'[t].pc = "sleep"
                        /\ tarefas'[t].attempt = tarefas[t].attempt
                        /\ futuros' = futuros
                   ELSE /\ tarefas'[t].pc = "fechando"
                        /\ tarefas'[t].ultima_resp = "200" =>
                              futuros'[t] = tarefas'[t].saida
                                  /\ futuros'[t].tipo = "dados"
                        /\ chamadas_em_andamento' = chamadas_em_andamento
                        /\ sem' = sem
             /\ (tarefas[t].pc = "sleep" /\ tarefas'[t].pc # "sleep") =>
                   IF tarefas[t].attempt = MAX_RETRIES - 1
                   THEN /\ tarefas'[t].pc = "fechando"
                        /\ futuros'[t].tipo = "erro"
                        /\ chamadas_em_andamento' = chamadas_em_andamento
                        /\ sem' = sem
                   ELSE /\ tarefas'[t].pc = "get"
                        /\ tarefas'[t].attempt = tarefas[t].attempt + 1
                        /\ futuros' = futuros
             /\ (tarefas[t].pc = "fechando" /\ tarefas'[t].pc # "fechando") =>
                   /\ tarefas'[t].pc = "fim"
                   /\ futuros' = futuros
                   /\ tarefas[t].chave \in DOMAIN chamadas_em_andamento
                   /\ tarefas[t].chave \notin DOMAIN chamadas_em_andamento'
                   /\ sem' = sem + 1]_vars

\* a leader slept after its third failed GET and has just settled its future
\* with the httpx error; it still has its entry and its permit
C20_Witness ==
    \E t \in Tarefas :
        /\ tarefas[t].pc = "fechando"
        /\ tarefas[t].attempt = MAX_RETRIES - 1
        /\ tarefas[t].emitidas = MAX_RETRIES
        /\ tarefas[t].ultima_resp = "erro"
        /\ futuros[t].tipo = "erro"
        /\ futuros[t].erro \in ErrosHttpx
        /\ chamadas_em_andamento[tarefas[t].chave] = t
        /\ sem < SEM_INICIAL

====
